---- MODULE Spec2Model ----
(***************************************************************************)
(* A model of the Discord FinanceBot (src/bot.py): the yfinance cache and  *)
(* retry layer, the anti-repeat scheduler with its persisted history, and  *)
(* the periodic refresh cycle send_update with the ad-hoc commands that    *)
(* share the event loop with it.                                           *)
(*                                                                         *)
(* Time is the wall clock in whole seconds.  A timestamp written with      *)
(* datetime.now().isoformat() and read back with datetime.fromisoformat    *)
(* is the same instant, so a timestamp is kept as the clock value.         *)
(* Synchronous code (time.sleep, requests, yfinance, the Anthropic client) *)
(* blocks the event loop: every action below is one stretch of code        *)
(* between two suspension points (await), and the clock moves inside it by *)
(* the sleeps the code makes.  Network latency itself is taken as zero.    *)
(***************************************************************************)
EXTENDS Integers, Sequences, FiniteSets, TLC

(***************************************************************************)
(* Program constants                                                       *)
(***************************************************************************)
CACHE_TTL == 30
YFINANCE_WAIT == 3
MAX_RETRIES == 3
INTERVAL_MINUTES == 15

\* COMPANIES, in dict (insertion) order, each entity named by its ticker.
COMPANIES == <<"SPY", "NVDA", "UBER", "CDR.WA">>

Tracked == {COMPANIES[i] : i \in 1..Len(COMPANIES)}

\* cfg["cik"] is None for SPY and CD Projekt.
HasCik(ticker) == ticker \in {"NVDA", "UBER"}

\* history.get(ticker, "2000-01-01T00:00:00"): the clock counts from there.
Epoch2000 == 0

(***************************************************************************)
(* Bounds of the model                                                     *)
(***************************************************************************)
\* send_update invocations in one run.
MaxCycles == 5
\* What the environment does to one run: ad-hoc commands, and failures of
\* the outside world (an upstream answer that is not data, a channel that
\* is not found, a failed EDGAR or Anthropic request), all together.
MaxEnv == 1

\* Tickers an ad-hoc command is given: a tracked one and an untracked one.
CmdTickers == {"NVDA", "AAPL"}

\* Absent values (None) are the empty tuple, present ones a 1-tuple.
None == <<>>
Some(v) == <<v>>

EmptyMap == [k \in {} |-> 0]

\* d[k] = v on a dict.
Put(d, k, v) == [x \in DOMAIN d \cup {k} |-> IF x = k THEN v ELSE d[x]]

\* First position of e in the sequence s, 0 when it is not there.
Pos(s, e) ==
    IF \E i \in 1..Len(s) : s[i] = e
    THEN CHOOSE i \in 1..Len(s) : s[i] = e /\ \A j \in 1..(i - 1) : s[j] # e
    ELSE 0

(***************************************************************************)
(* State                                                                   *)
(***************************************************************************)
VARIABLES
    now,        \* the wall clock, seconds
    nextTick,   \* when tasks.loop runs send_update next
    cache,      \* _cache: ticker -> [at, data]
    fileExists, \* os.path.exists(HISTORY_FILE)
    file,       \* content of HISTORY_FILE, a sequence of written chunks
    pc,         \* where the running send_update is suspended
    history,    \* send_update's local: the dict load_history returned
    sel,        \* send_update's local: the ticker pick_company returned
    market,     \* send_update's local: what get_market_data returned
    edgar,      \* send_update's local: what get_edgar_facts returned
    events,     \* what the running cycle has done so far, in order
    picks,      \* one record per send_update invocation, in order
    lastCall,   \* the latest get_market_data call and what it did
    cmds,       \* ad-hoc commands served so far
    faults,     \* failures of the outside world so far
    saved,      \* the history before and after the save under way
    report      \* the latest !raport: its ticker and its steps, in order

vars == <<now, nextTick, cache, fileExists, file, pc, history, sel, market,
          edgar, events, picks, lastCall, cmds, faults, saved, report>>

(***************************************************************************)
(* HISTORIA: load_history, save_history, pick_company                      *)
(***************************************************************************)
\* One chunk of the history file as json.dump writes it: the opening brace,
\* one "ticker": "timestamp" member, the closing brace.
Brace(b) == [k |-> b, v |-> 0]
Member(h, t) == [k |-> t, v |-> h[t]]

\* The tracked tickers that are keys of h, in order.
Keys(h) == SelectSeq(COMPANIES, LAMBDA t : t \in DOMAIN h)

\* json.dump(h, f, ensure_ascii=False, indent=2): the whole text.
json_dump(h) ==
    <<Brace("{")>> \o [i \in 1..Len(Keys(h)) |-> Member(h, Keys(h)[i])]
                   \o <<Brace("}")>>

\* save_history(h) run to its end: the file holds the whole text.
save_history(h) == json_dump(h)

\* json.load accepts a text that is one complete object and raises
\* JSONDecodeError on anything else, the empty text included.
json_ok(f) ==
    /\ Len(f) >= 2
    /\ f[1] = Brace("{")
    /\ f[Len(f)] = Brace("}")
    /\ \A i \in 2..(Len(f) - 1) : f[i].k \in Tracked

json_load(f) ==
    [t \in {f[i].k : i \in 2..(Len(f) - 1)} |->
        f[CHOOSE i \in 2..(Len(f) - 1) : f[i].k = t].v]

\* load_history(): ok is FALSE when json.load raises.
load_history(exists, f) ==
    IF ~exists THEN [ok |-> TRUE, h |-> EmptyMap]
    ELSE IF json_ok(f) THEN [ok |-> TRUE, h |-> json_load(f)]
    ELSE [ok |-> FALSE, h |-> EmptyMap]

\* history.get with a default thirty years after 2000-01-01: an entity that
\* is not in the history reads as sent in the future.
LastSent_default_2030(h, t) ==
    IF t \in DOMAIN h THEN h[t] ELSE Epoch2000 + 30 * 365 * 86400

\* history.get(cfg["ticker"], "2000-01-01T00:00:00")
LastSent(h, t) == IF t \in DOMAIN h THEN h[t] ELSE Epoch2000

cooldown == Len(COMPANIES) * INTERVAL_MINUTES * 60

\* pick_company with the cooldown of one interval, the factor
\* len(COMPANIES) forgotten.
available_one_interval(h, t) ==
    SelectSeq(COMPANIES,
              LAMBDA c : (t - LastSent(h, c)) > INTERVAL_MINUTES * 60)

\* pick_company with >= for > in the cooldown test.
available_inclusive(h, t) ==
    SelectSeq(COMPANIES, LAMBDA c : (t - LastSent(h, c)) >= cooldown)

\* The list `available` of pick_company at time t, in COMPANIES order.
available(h, t) ==
    SelectSeq(COMPANIES, LAMBDA c : (t - LastSent(h, c)) > cooldown)

\* The fallback taking the last of the entities with the least lastSent.
oldest_last(h) ==
    LET i == CHOOSE i \in 1..Len(COMPANIES) :
                 /\ \A j \in 1..Len(COMPANIES) :
                        LastSent(h, COMPANIES[i]) <= LastSent(h, COMPANIES[j])
                 /\ \A j \in (i + 1)..Len(COMPANIES) :
                        LastSent(h, COMPANIES[j]) > LastSent(h, COMPANIES[i])
    IN  COMPANIES[i]

\* min(COMPANIES.items(), key=lastSent): the first entity, in COMPANIES
\* order, whose lastSent no other entity's is below.
oldest(h) ==
    LET i == CHOOSE i \in 1..Len(COMPANIES) :
                 /\ \A j \in 1..Len(COMPANIES) :
                        LastSent(h, COMPANIES[i]) <= LastSent(h, COMPANIES[j])
                 /\ \A j \in 1..(i - 1) :
                        LastSent(h, COMPANIES[j]) > LastSent(h, COMPANIES[i])
    IN  COMPANIES[i]

\* What random.choice may return from pick_company at time t.
Choices(h, t) == 1..Len(available(h, t))

\* pick_company drawing from all of COMPANIES, the cooldown ignored.
pick_company_any(h, t, r) == COMPANIES[r]

\* pick_company(history) at time t; r is random.choice's draw.
pick_company(h, t, r) ==
    IF available(h, t) = <<>> THEN oldest(h) ELSE available(h, t)[r]

(***************************************************************************)
(* ZRODLO 1: yfinance with retries, and the cache in front of it           *)
(***************************************************************************)
\* What one yf.Ticker(ticker).info attempt can come to: data, an answer
\* without a price, an exception that reads 429, any other exception.
Outcomes == {"ok", "empty", "r429", "error"}

\* The quote the upstream serves at time t: a new snapshot at every instant.
Upstream(t) == t

\* _fetch_yfinance_raw from the top of the loop with `attempt`, at time t,
\* the upstream answering attempt i with outs[i].  calls are the times of
\* the outbound attempts made, sleeps the time.sleep arguments, end the
\* time of return.
RECURSIVE fetch_loop(_, _, _)
fetch_loop(outs, attempt, t) ==
    IF attempt > MAX_RETRIES
    THEN [data |-> None, calls |-> <<>>, sleeps |-> <<>>, end |-> t]
    ELSE LET o == outs[attempt]
             wait == IF o = "empty" THEN YFINANCE_WAIT * attempt
                     ELSE YFINANCE_WAIT * (attempt * 2)
             rest == fetch_loop(outs, attempt + 1, t + wait)
         IN  IF o = "ok"
             THEN [data |-> Some(Upstream(t)), calls |-> <<t>>,
                   sleeps |-> <<>>, end |-> t]
             ELSE IF o = "error"
             THEN [data |-> None, calls |-> <<t>>, sleeps |-> <<>>, end |-> t]
             ELSE [rest EXCEPT !.calls = <<t>> \o @, !.sleeps = <<wait>> \o @]

fetch_yfinance_raw(outs, t) == fetch_loop(outs, 1, t)

\* get_market_data serving any cached entry, whatever its age.
get_market_data_stale(c, ticker, t, outs) ==
    IF ticker \in DOMAIN c
    THEN [data |-> Some(c[ticker].data), cache |-> c, hit |-> TRUE,
          calls |-> <<>>, sleeps |-> <<>>, end |-> t]
    ELSE LET r == fetch_yfinance_raw(outs, t + YFINANCE_WAIT)
         IN  [data |-> r.data,
              cache |-> IF r.data # None
                        THEN Put(c, ticker, [at |-> t, data |-> r.data[1]])
                        ELSE c,
              hit |-> FALSE, calls |-> r.calls,
              sleeps |-> <<YFINANCE_WAIT>> \o r.sleeps, end |-> r.end]

\* get_market_data stamping the expired entry anew when the fetch failed.
get_market_data_refreshes_on_failure(c, ticker, t, outs) ==
    IF ticker \in DOMAIN c /\ (t - c[ticker].at) < CACHE_TTL * 60
    THEN [data |-> Some(c[ticker].data), cache |-> c, hit |-> TRUE,
          calls |-> <<>>, sleeps |-> <<>>, end |-> t]
    ELSE LET r == fetch_yfinance_raw(outs, t + YFINANCE_WAIT)
         IN  [data |-> r.data,
              cache |-> IF r.data # None
                        THEN Put(c, ticker, [at |-> t, data |-> r.data[1]])
                        ELSE IF ticker \in DOMAIN c
                        THEN Put(c, ticker, [at |-> t, data |-> c[ticker].data])
                        ELSE c,
              hit |-> FALSE, calls |-> r.calls,
              sleeps |-> <<YFINANCE_WAIT>> \o r.sleeps, end |-> r.end]

\* get_market_data(ticker) called at time t with _cache = c.
\* age_min = seconds / 60 < CACHE_TTL is seconds < CACHE_TTL * 60.
get_market_data(c, ticker, t, outs) ==
    IF ticker \in DOMAIN c /\ (t - c[ticker].at) < CACHE_TTL * 60
    THEN [data |-> Some(c[ticker].data), cache |-> c, hit |-> TRUE,
          calls |-> <<>>, sleeps |-> <<>>, end |-> t]
    ELSE LET r == fetch_yfinance_raw(outs, t + YFINANCE_WAIT)
         IN  [data |-> r.data,
              cache |-> IF r.data # None
                        THEN Put(c, ticker, [at |-> t, data |-> r.data[1]])
                        ELSE c,
              hit |-> FALSE, calls |-> r.calls,
              sleeps |-> <<YFINANCE_WAIT>> \o r.sleeps, end |-> r.end]

\* The upstream's answers to the attempts of one call, at most n of them
\* failures.  An attempt after data or after an error other than 429 is
\* never made, so the answers from there on are fixed to "ok".
Answers(n) ==
    {outs \in [1..MAX_RETRIES -> Outcomes] :
        /\ Cardinality({i \in 1..MAX_RETRIES : outs[i] # "ok"}) <= n
        /\ \A i \in 1..MAX_RETRIES :
               outs[i] \in {"ok", "error"} =>
                   \A j \in (i + 1)..MAX_RETRIES : outs[j] = "ok"}

AllOk == [i \in 1..MAX_RETRIES |-> "ok"]

\* Failed answers among those a call consumed.
Failed(r, outs) == Cardinality({i \in 1..Len(r.calls) : outs[i] # "ok"})

\* The record kept of a get_market_data call.
CallRecord(c, ticker, t, r) ==
    [ticker |-> ticker, at |-> t,
     pre |-> IF ticker \in DOMAIN c THEN Some(c[ticker]) ELSE None,
     data |-> r.data, hit |-> r.hit, calls |-> r.calls]

(***************************************************************************)
(* GLOWNA PETLA: send_update, one action per stretch between awaits        *)
(***************************************************************************)
Interval == INTERVAL_MINUTES * 60

\* The clock when the bot starts: any time later than 2000-01-01 plus the
\* cooldown reads a missing history entry as overdue.
BootTime == Epoch2000 + 2 * cooldown

NoCall == [ticker |-> "", at |-> 0, pre |-> None, data |-> None,
           hit |-> FALSE, calls |-> <<>>]

NoTicker == "-"

NoSave == [pre |-> EmptyMap, new |-> EmptyMap]

NoReport == [ticker |-> NoTicker, events |-> <<>>]

Init ==
    /\ now = BootTime
    /\ nextTick = BootTime
    /\ cache = EmptyMap
    /\ fileExists = FALSE
    /\ file = <<>>
    /\ pc = "idle"
    /\ history = EmptyMap
    /\ sel = NoTicker
    /\ market = None
    /\ edgar = None
    /\ events = <<>>
    /\ picks = <<>>
    /\ lastCall = NoCall
    /\ cmds = 0
    /\ faults = 0
    /\ saved = NoSave
    /\ report = NoReport

\* The environment can still afford n more of its events.
Budget(n) == cmds + faults + n <= MaxEnv

Max(a, b) == IF a >= b THEN a ELSE b

\* random.choice's possible draws (one dummy draw when nothing is drawn).
Draws(h, t) == IF available(h, t) = <<>> THEN {1} ELSE Choices(h, t)

\* requests.get of companyfacts succeeds or not; no request without a CIK.
EdgarResults(ticker) == IF HasCik(ticker) THEN {None, Some("facts")} ELSE {None}

EdgarFailed(ticker, e) == IF HasCik(ticker) /\ e = None THEN 1 ELSE 0

\* send_update going on to the filings and the quote whatever the market
\* fetch returned.
after_market_keeps_going(ticker, m, e) ==
    [events |-> (IF HasCik(ticker)
                 THEN <<"get_edgar_facts", "get_recent_filings">>
                 ELSE <<>>) \o <<"send_quote">>,
     pc |-> "quote",
     edgar |-> IF HasCik(ticker) THEN e ELSE None]

\* send_update asking EDGAR for the company facts once for the report and
\* once more for the embed.
after_market_asks_twice(ticker, m, e) ==
    IF m = None
    THEN [events |-> <<"send_unavailable">>, pc |-> "unavailable", edgar |-> None]
    ELSE [events |-> (IF HasCik(ticker)
                      THEN <<"get_edgar_facts", "get_recent_filings",
                             "get_edgar_facts">>
                      ELSE <<>>) \o <<"send_quote">>,
          pc |-> "quote",
          edgar |-> IF HasCik(ticker) THEN e ELSE None]

\* Lines 667-695 after get_market_data returned m for `ticker`, the filings
\* repository answering e: the steps made up to the first await.
after_market(ticker, m, e) ==
    IF m = None
    THEN [events |-> <<"send_unavailable">>, pc |-> "unavailable", edgar |-> None]
    ELSE [events |-> (IF HasCik(ticker)
                      THEN <<"get_edgar_facts", "get_recent_filings">>
                      ELSE <<>>) \o <<"send_quote">>,
          pc |-> "quote",
          edgar |-> IF HasCik(ticker) THEN e ELSE None]

\* tasks.loop starts send_update at its tick, or as soon after it as the
\* event loop is free.
StartTime == Max(now, nextTick)

\* bot.get_channel returned None: the invocation returns at once.
send_update_no_channel ==
    /\ pc = "idle" /\ Len(picks) < MaxCycles
    /\ Budget(1)
    /\ faults' = faults + 1
    /\ now' = StartTime
    /\ nextTick' = nextTick + Interval
    /\ picks' = Append(picks, [tick |-> nextTick, at |-> StartTime,
                               t |-> NoTicker, ok |-> FALSE])
    /\ UNCHANGED <<cache, fileExists, file, pc, history, sel, market,
                   edgar, events, lastCall, cmds, saved, report>>

\* Lines 661-695 (or 661-683): load, pick, market fetch, filings fetch and
\* the first channel.send.
send_update_start ==
    /\ pc = "idle" /\ Len(picks) < MaxCycles
    /\ load_history(fileExists, file).ok
    /\ LET h == load_history(fileExists, file).h
           t0 == StartTime
       IN
       \E d \in Draws(h, t0) :
         LET ticker == pick_company(h, t0, d) IN
         \E outs \in Answers(MaxEnv - cmds - faults) :
           LET r == get_market_data(cache, ticker, t0, outs) IN
           \E e \in EdgarResults(ticker) :
             LET a == after_market(ticker, r.data, e)
                 cost == Failed(r, outs)
                           + (IF r.data # None THEN EdgarFailed(ticker, e) ELSE 0)
             IN
             /\ r.hit => outs = AllOk
             /\ r.data = None => e = None
             /\ Budget(cost)
             /\ faults' = faults + cost
             /\ history' = h
             /\ sel' = ticker
             /\ market' = r.data
             /\ cache' = r.cache
             /\ now' = r.end
             /\ lastCall' = CallRecord(cache, ticker, t0, r)
             /\ edgar' = a.edgar
             /\ events' = <<"load_history", "pick_company", "get_market_data">>
                              \o a.events
             /\ pc' = a.pc
             /\ picks' = Append(picks, [tick |-> nextTick, at |-> t0,
                                        t |-> ticker, ok |-> r.data # None])
    /\ nextTick' = nextTick + Interval
    /\ UNCHANGED <<fileExists, file, cmds, saved, report>>

\* The history updated in memory and never saved.
record_history_unsaved ==
    /\ history' = Put(history, sel, now)
    /\ UNCHANGED <<file, fileExists>>
    /\ events' = Append(events, "save_history")
    /\ pc' = "done"

\* The cycle saving a dict that holds the selected entity alone.
record_history_only_selected ==
    /\ history' = Put(EmptyMap, sel, now)
    /\ file' = save_history(history')
    /\ fileExists' = TRUE
    /\ events' = Append(events, "save_history")
    /\ pc' = "done"

\* history[ticker] = datetime.now().isoformat(); save_history(history)
record_history ==
    /\ history' = Put(history, sel, now)
    /\ file' = save_history(history')
    /\ fileExists' = TRUE
    /\ events' = Append(events, "save_history")
    /\ pc' = "done"

\* The failure path returning after the notice, the attempt not recorded.
send_update_unavailable_unrecorded ==
    /\ pc = "unavailable"
    /\ pc' = "done"
    /\ UNCHANGED <<now, nextTick, cache, fileExists, file, history, sel,
                   market, edgar, events, picks, lastCall, cmds, faults,
                   saved, report>>

\* Lines 684-688: after the notice was sent.
send_update_unavailable ==
    /\ pc = "unavailable"
    /\ record_history
    /\ UNCHANGED <<now, nextTick, cache, sel, market, edgar, picks, lastCall,
                   cmds, faults, saved, report>>

\* The history saved as soon as the quote is out, before the rest of the
\* bundle.
send_update_quote_saves_first ==
    /\ pc = "quote"
    /\ history' = Put(history, sel, now)
    /\ file' = save_history(history')
    /\ fileExists' = TRUE
    /\ events' = events \o <<"save_history", "send_tmp">>
    /\ pc' = "tmp"
    /\ UNCHANGED <<now, nextTick, cache, sel, market, edgar, picks, lastCall,
                   cmds, faults, saved, report>>

\* The cycle given up after the quote when the company facts are missing.
send_update_quote_needs_edgar ==
    /\ pc = "quote"
    /\ IF HasCik(sel) /\ edgar = None
       THEN events' = events /\ pc' = "done"
       ELSE IF edgar # None /\ HasCik(sel)
       THEN events' = Append(events, "send_edgar") /\ pc' = "edgar"
       ELSE events' = Append(events, "send_tmp") /\ pc' = "tmp"
    /\ UNCHANGED <<now, nextTick, cache, fileExists, file, history, sel,
                   market, edgar, picks, lastCall, cmds, faults, saved, report>>

\* Lines 697-702: after the quote was sent.
send_update_quote ==
    /\ pc = "quote"
    /\ IF edgar # None /\ HasCik(sel)
       THEN events' = Append(events, "send_edgar") /\ pc' = "edgar"
       ELSE events' = Append(events, "send_tmp") /\ pc' = "tmp"
    /\ UNCHANGED <<now, nextTick, cache, fileExists, file, history, sel,
                   market, edgar, picks, lastCall, cmds, faults, saved, report>>

\* Line 702: after the EDGAR embed was sent.
send_update_edgar ==
    /\ pc = "edgar"
    /\ events' = Append(events, "send_tmp")
    /\ pc' = "tmp"
    /\ UNCHANGED <<now, nextTick, cache, fileExists, file, history, sel,
                   market, edgar, picks, lastCall, cmds, faults, saved, report>>

\* generate_ai_report letting the exception of the Anthropic call through:
\* the cycle is over at once, no AI embed, nothing recorded.
send_update_report_aborts ==
    /\ pc = "tmp"
    /\ \E ai \in {"report", "report_error"} :
         LET cost == IF ai = "report_error" THEN 1 ELSE 0 IN
         /\ Budget(cost)
         /\ faults' = faults + cost
         /\ events' = events \o (IF ai = "report_error" THEN <<ai>>
                                 ELSE <<ai, "delete_tmp">>)
         /\ pc' = IF ai = "report_error" THEN "done" ELSE "deleted"
    /\ UNCHANGED <<now, nextTick, cache, fileExists, file, history, sel,
                   market, edgar, picks, lastCall, cmds, saved, report>>

\* Lines 703-704: generate_ai_report returns the report, or the text of the
\* error when the Anthropic call raised; then tmp.delete().
send_update_report ==
    /\ pc = "tmp"
    /\ \E ai \in {"report", "report_error"} :
         LET cost == IF ai = "report_error" THEN 1 ELSE 0 IN
         /\ Budget(cost)
         /\ faults' = faults + cost
         /\ events' = events \o <<ai, "delete_tmp">>
    /\ pc' = "deleted"
    /\ UNCHANGED <<now, nextTick, cache, fileExists, file, history, sel,
                   market, edgar, picks, lastCall, cmds, saved, report>>

\* Line 705: the AI embed is sent.
send_update_ai ==
    /\ pc = "deleted"
    /\ events' = Append(events, "send_ai")
    /\ pc' = "ai"
    /\ UNCHANGED <<now, nextTick, cache, fileExists, file, history, sel,
                   market, edgar, picks, lastCall, cmds, faults, saved, report>>

\* Lines 707-709: after the AI embed was sent.
send_update_record ==
    /\ pc = "ai"
    /\ record_history
    /\ UNCHANGED <<now, nextTick, cache, sel, market, edgar, picks, lastCall,
                   cmds, faults, saved, report>>

\* The coroutine returns; its locals are gone.
send_update_return ==
    /\ pc = "done"
    /\ pc' = "idle"
    /\ history' = EmptyMap
    /\ sel' = NoTicker
    /\ market' = None
    /\ edgar' = None
    /\ events' = <<>>
    /\ UNCHANGED <<now, nextTick, cache, fileExists, file, picks, lastCall,
                   cmds, faults, saved, report>>

(***************************************************************************)
(* KOMENDY                                                                 *)
(***************************************************************************)
\* The instants at which waiting changes what a command meets: the next
\* tick of the loop, and one second either side of the expiry of a cache
\* entry a command can ask for.
WakeTimes ==
    {nextTick} \cup
    {cache[k].at + CACHE_TTL * 60 + d :
        k \in DOMAIN cache \cap CmdTickers, d \in {-1, 1}}

\* When a command can arrive: now, in an await of the running send_update;
\* or, with nothing running, now or at a later instant up to the next tick.
CmdTimes ==
    IF pc = "idle"
    THEN {now} \cup {t \in WakeTimes : now < t /\ t <= nextTick}
    ELSE {now}

\* !stock TICKER: get_market_data, then one ctx.send.
cmd_stock ==
    /\ pc # "done"
    /\ Budget(1)
    /\ \E ticker \in CmdTickers :
       \E t \in CmdTimes :
       \E outs \in Answers(MaxEnv - cmds - faults - 1) :
         LET r == get_market_data(cache, ticker, t, outs) IN
         /\ r.hit => outs = AllOk
         /\ Budget(1 + Failed(r, outs))
         /\ faults' = faults + Failed(r, outs)
         /\ cache' = r.cache
         /\ now' = r.end
         /\ lastCall' = CallRecord(cache, ticker, t, r)
    /\ cmds' = cmds + 1
    /\ UNCHANGED <<nextTick, fileExists, file, pc, history, sel, market,
                   edgar, events, picks, saved, report>>

Next ==
    \/ send_update_no_channel
    \/ send_update_start
    \/ send_update_unavailable
    \/ send_update_quote
    \/ send_update_edgar
    \/ send_update_report
    \/ send_update_ai
    \/ send_update_record
    \/ send_update_return
    \/ cmd_stock

Spec == Init /\ [][Next]_vars

(***************************************************************************)
(* Properties of the cache (checked under Spec)                            *)
(***************************************************************************)
TTL == CACHE_TTL * 60

\* The age, at the latest get_market_data call, of the entry it found.
LastAge == lastCall.at - lastCall.pre[1].at

Selected(i) == picks[i].t # NoTicker

\* C2: two invocations of send_update that select the same entity belong
\* to ticks of the loop at least cooldown = len(COMPANIES) x interval
\* apart, and so do their starts when the earlier one started on its tick.
C2_Cooldown ==
    \A i, j \in 1..Len(picks) :
        (i < j /\ Selected(i) /\ picks[i].t = picks[j].t) =>
            /\ picks[j].tick - picks[i].tick >= cooldown
            /\ picks[i].at = picks[i].tick =>
                   picks[j].at - picks[i].at >= cooldown

\* An entity is selected a second time, exactly one cooldown later.
C2_Witness ==
    \E i, j \in 1..Len(picks) :
        /\ i < j /\ Selected(i) /\ picks[i].t = picks[j].t
        /\ picks[j].at - picks[i].at = cooldown

\* The invocations a run starts with, one per tracked entity at most.
FirstRound == 1..(IF Len(picks) < Len(COMPANIES) THEN Len(picks)
                  ELSE Len(COMPANIES))

\* C3: from an empty history, when each of the first len(COMPANIES)
\* invocations selects an entity, they select different entities.
C3_AllBeforeRepeat ==
    (\A i \in FirstRound : Selected(i)) =>
        \A i, j \in FirstRound : i # j => picks[i].t # picks[j].t

\* The first len(COMPANIES) invocations selected every tracked entity.
C3_Witness ==
    /\ Len(picks) >= Len(COMPANIES)
    /\ {picks[i].t : i \in FirstRound} = Tracked

\* C9: when the market fetch fails for the entity an invocation selected,
\* the next invocation of the loop selects another entity.
C9_MovesOn ==
    \A i \in 1..(Len(picks) - 1) :
        (Selected(i) /\ ~picks[i].ok /\ Selected(i + 1)) =>
            picks[i + 1].t # picks[i].t

\* An invocation whose market fetch failed, and the next one with its pick.
C9_Witness ==
    \E i \in 1..(Len(picks) - 1) :
        Selected(i) /\ ~picks[i].ok /\ Selected(i + 1)

(***************************************************************************)
(* Properties of one refresh cycle                                         *)
(***************************************************************************)
\* One more step of the running send_update.
CycleStep ==
    \/ send_update_unavailable
    \/ send_update_quote
    \/ send_update_edgar
    \/ send_update_report
    \/ send_update_ai
    \/ send_update_record
    \/ send_update_return

Running == pc # "idle"

\* The running invocation: the latest one.
Current == picks[Len(picks)]

\* The history file holds, for the selected entity, a timestamp taken
\* while the running invocation ran.
Recorded ==
    /\ load_history(fileExists, file).ok
    /\ fileExists
    /\ sel \in DOMAIN json_load(file)
    /\ Current.at <= json_load(file)[sel]
    /\ json_load(file)[sel] <= now

\* C7: an invocation that selected an entity never gets stuck, and when it
\* is over the history file holds a timestamp of this invocation for the
\* entity, whatever the market, EDGAR and Anthropic requests came to.
C7_AlwaysRecords ==
    /\ Running => ENABLED CycleStep
    /\ pc = "done" => Recorded

\* A cycle is over whose narrative request failed.
C7_Witness ==
    /\ pc = "done"
    /\ Pos(events, "report_error") # 0
    /\ Recorded

\* The messages among the events, in order.
Sends(ev) ==
    SelectSeq(ev, LAMBDA x : x \in {"send_unavailable", "send_quote",
                                    "send_edgar", "send_tmp", "send_ai"})

\* C8: a cycle whose market fetch failed sends the data-unavailable notice
\* and nothing else, asks neither EDGAR nor Anthropic for anything, records
\* the attempt for the selected entity and is over.
C8_Unavailable ==
    (Running /\ market = None) =>
        /\ pc \in {"unavailable", "done"}
        /\ Sends(events) = <<"send_unavailable">>
        /\ \A x \in {"get_edgar_facts", "get_recent_filings", "report",
                     "report_error"} : Pos(events, x) = 0
        /\ pc = "unavailable" => ENABLED send_update_unavailable
        /\ pc = "done" =>
               /\ Recorded
               /\ events[Len(events)] = "save_history"

\* A cycle is over whose market fetch failed.
C8_Witness ==
    /\ pc = "done"
    /\ market = None
    /\ ~Current.ok

\* In the events, a comes before b whenever b is there.
Precedes(a, b) ==
    Pos(events, b) # 0 => (Pos(events, a) # 0 /\ Pos(events, a) < Pos(events, b))

\* C10: in a cycle the market fetch comes before the EDGAR requests, these
\* before the first message of the bundle, and save_history last, after
\* the AI embed or the data-unavailable notice; until then the history
\* file is what the cycle loaded.
C10_Order ==
    /\ Precedes("get_market_data", "get_edgar_facts")
    /\ Precedes("get_edgar_facts", "get_recent_filings")
    /\ Precedes("get_market_data", "send_quote")
    /\ Precedes("get_market_data", "send_unavailable")
    /\ (Pos(events, "send_quote") # 0 /\ HasCik(sel)) =>
           Precedes("get_recent_filings", "send_quote")
    /\ Pos(events, "save_history") # 0 =>
           /\ Pos(events, "save_history") = Len(events)
           /\ Pos(events, "send_ai") # 0 \/ Pos(events, "send_unavailable") # 0
           /\ Precedes("get_market_data", "save_history")
    /\ (Running /\ Pos(events, "save_history") = 0) =>
           load_history(fileExists, file).h = history

\* A cycle for an entity with a CIK is over, the whole bundle sent.
C10_Witness ==
    /\ pc = "done"
    /\ HasCik(sel)
    /\ Pos(events, "send_edgar") # 0
    /\ Pos(events, "send_ai") # 0
    /\ Pos(events, "save_history") = Len(events)

(***************************************************************************)
(* pick_company on its own, over histories around the cooldown's edge      *)
(***************************************************************************)
PickNow == BootTime + cooldown

\* lastSent values: overdue by a second, on the edge of the cooldown,
\* inside it by a second, just sent.
Stamps == {PickNow - cooldown - 1, PickNow - cooldown,
           PickNow - cooldown + 1, PickNow - 1}

\* The history files over these values, entities missing included.
Histories == UNION {[S -> Stamps] : S \in SUBSET Tracked}

InitPick ==
    /\ now = PickNow
    /\ history \in Histories
    /\ pc = "pick"
    /\ sel = NoTicker
    /\ nextTick = BootTime
    /\ cache = EmptyMap
    /\ fileExists = FALSE
    /\ file = <<>>
    /\ market = None
    /\ edgar = None
    /\ events = <<>>
    /\ picks = <<>>
    /\ lastCall = NoCall
    /\ cmds = 0
    /\ faults = 0
    /\ saved = NoSave
    /\ report = NoReport

\* name, cfg = pick_company(history)
pick_apply ==
    /\ pc = "pick"
    /\ \E d \in Draws(history, now) : sel' = pick_company(history, now, d)
    /\ pc' = "picked"
    /\ UNCHANGED <<now, nextTick, cache, fileExists, file, history, market,
                   edgar, events, picks, lastCall, cmds, faults, saved, report>>

NextPick == pick_apply

SpecPick == InitPick /\ [][NextPick]_vars

\* now - lastSent > len(COMPANIES) x interval
Eligible(c) == (now - LastSent(history, c)) > cooldown

\* C4: when some tracked entity is past its cooldown, the entity
\* pick_company returns is past its cooldown.
C4_EligibleOnly ==
    (pc = "picked" /\ \E c \in Tracked : Eligible(c)) => Eligible(sel)

\* A pick with an entity exactly on the edge of the cooldown left out.
C4_Witness ==
    /\ pc = "picked"
    /\ Eligible(sel)
    /\ \E c \in Tracked : now - LastSent(history, c) = cooldown

\* C5: when no tracked entity is past its cooldown, pick_company returns
\* (it is never without a result) the first entity, in COMPANIES order,
\* of those with the least lastSent.
C5_OldestFirst ==
    /\ pc = "pick" => ENABLED pick_apply
    /\ (pc = "picked" /\ \A c \in Tracked : ~Eligible(c)) =>
           /\ sel \in Tracked
           /\ \A c \in Tracked : LastSent(history, sel) <= LastSent(history, c)
           /\ \A j \in 1..(Pos(COMPANIES, sel) - 1) :
                  LastSent(history, COMPANIES[j]) > LastSent(history, sel)

\* A fallback pick among several entities with the same least lastSent.
C5_Witness ==
    /\ pc = "picked"
    /\ \A c \in Tracked : ~Eligible(c)
    /\ \E c \in Tracked : c # sel /\ LastSent(history, c) = LastSent(history, sel)

(***************************************************************************)
(* save_history under a crash of the process, and the load that follows    *)
(***************************************************************************)
SaveStamps == {BootTime, BootTime + Interval}

SaveNow == BootTime + 2 * Interval

\* Lines 707-708 are reached: the file holds the history h0 the cycle
\* loaded (or is not there yet), the dict holds h0 with the entry of the
\* selected entity set to now.
InitCrash ==
    /\ now = SaveNow
    /\ \E h0 \in UNION {[S -> SaveStamps] : S \in SUBSET Tracked} :
       \E t \in Tracked :
       \E ex \in BOOLEAN :
         /\ ex \/ h0 = EmptyMap
         /\ fileExists = ex
         /\ file = IF ex THEN save_history(h0) ELSE <<>>
         /\ sel = t
         /\ history = Put(h0, t, SaveNow)
         /\ saved = [pre |-> h0, new |-> Put(h0, t, SaveNow)]
    /\ pc = "save"
    /\ nextTick = BootTime
    /\ cache = EmptyMap
    /\ market = None
    /\ edgar = None
    /\ events = <<>>
    /\ picks = <<>>
    /\ lastCall = NoCall
    /\ cmds = 0
    /\ faults = 0
    /\ report = NoReport

\* open(HISTORY_FILE, "w"): the file is there and empty.
save_open ==
    /\ pc = "save"
    /\ fileExists' = TRUE
    /\ file' = <<>>
    /\ pc' = "opened"
    /\ UNCHANGED <<now, nextTick, cache, history, sel, market, edgar, events,
                   picks, lastCall, cmds, faults, saved, report>>

\* json.dump and the end of the with block: the text (a few hundred bytes,
\* less than the file object's buffer) reaches the file in one write.
save_dump ==
    /\ pc = "opened"
    /\ file' = save_history(history)
    /\ pc' = "saved"
    /\ UNCHANGED <<now, nextTick, cache, fileExists, history, sel, market,
                   edgar, events, picks, lastCall, cmds, faults, saved, report>>

\* The process dies, before, during or right after save_history.
crash ==
    /\ pc \in {"save", "opened", "saved"}
    /\ pc' = "crashed"
    /\ history' = EmptyMap
    /\ UNCHANGED <<now, nextTick, cache, fileExists, file, sel, market, edgar,
                   events, picks, lastCall, cmds, faults, saved, report>>

\* The bot is started again and send_update calls load_history.
restart_load ==
    /\ pc = "crashed"
    /\ pc' = IF load_history(fileExists, file).ok THEN "reloaded"
             ELSE "load_failed"
    /\ history' = load_history(fileExists, file).h
    /\ UNCHANGED <<now, nextTick, cache, fileExists, file, sel, market, edgar,
                   events, picks, lastCall, cmds, faults, saved, report>>

NextCrash == save_open \/ save_dump \/ crash \/ restart_load

SpecCrash == InitCrash /\ [][NextCrash]_vars

\* C6: after a crash at any point of save_history, load_history returns
\* the history as it was before the write or as it was written.
C6_CrashSafe ==
    pc \in {"reloaded", "load_failed"} =>
        /\ pc = "reloaded"
        /\ history \in {saved.pre, saved.new}

(***************************************************************************)
(* The fetch layer on its own: get_market_data calls and the EDGAR         *)
(* requests of a cycle, one after the other, with every outbound request   *)
(* logged in events                                                        *)
(***************************************************************************)
\* What the upstream can answer to one attempt: data, an answer without a
\* price, an exception of a 429, of a 403, of a broken connection.
RawOutcomes == {"ok", "empty", "r429", "auth403", "network"}

\* The 403 told from the other exceptions by a text that reads 429.
classify_auth_as_429(raw) ==
    IF raw \in {"r429", "auth403"} THEN "r429"
    ELSE IF raw = "network" THEN "error" ELSE raw

\* except Exception as e: "429" in err or "Too Many Requests" in err, or
\* any other exception.
classify(raw) == IF raw \in {"auth403", "network"} THEN "error" ELSE raw

\* The answers to the attempts of one call; an attempt after data or after
\* an exception other than 429 is never made, its answer is fixed to "ok".
RawAnswers ==
    {raws \in [1..MAX_RETRIES -> RawOutcomes] :
        \A i \in 1..MAX_RETRIES :
            raws[i] \in {"ok", "auth403", "network"} =>
                \A j \in (i + 1)..MAX_RETRIES : raws[j] = "ok"}

\* Tickers asked for: one with a CIK, one without.
FetchKeys == {"NVDA", "SPY"}

\* Time between the end of one call and the start of the next: none, or
\* enough for every cache entry to expire.
Gaps == {0, CACHE_TTL * 60}

\* Calls of the fetch layer in one run.
MaxFetches == 2

\* The log entries of call number op: one per outbound request, with the
\* upstream's answer and the time.sleep that followed it (0: none).
Outbound(key, op, r, raws) ==
    [i \in 1..Len(r.calls) |->
        [key |-> key, op |-> op, attempt |-> i, at |-> r.calls[i],
         raw |-> raws[i],
         wait |-> IF Len(r.sleeps) >= i + 1 THEN r.sleeps[i + 1] ELSE 0]]

InitFetch ==
    /\ now = BootTime
    /\ cache = EmptyMap
    /\ events = <<>>
    /\ lastCall = NoCall
    /\ market = None
    /\ cmds = 0
    /\ pc = "fetch"
    /\ nextTick = BootTime
    /\ fileExists = FALSE
    /\ file = <<>>
    /\ history = EmptyMap
    /\ sel = NoTicker
    /\ edgar = None
    /\ picks = <<>>
    /\ faults = 0
    /\ saved = NoSave
    /\ report = NoReport

\* market = get_market_data(ticker)
fetch_market ==
    /\ pc = "fetch"
    /\ cmds < MaxFetches
    /\ \E ticker \in FetchKeys :
       \E gap \in Gaps :
       \E raws \in RawAnswers :
         LET t    == now + gap
             outs == [i \in 1..MAX_RETRIES |-> classify(raws[i])]
             r    == get_market_data(cache, ticker, t, outs)
         IN  /\ r.hit => raws = AllOk
             /\ \A i \in (Len(r.calls) + 1)..MAX_RETRIES : raws[i] = "ok"
             /\ cache' = r.cache
             /\ now' = r.end
             /\ market' = r.data
             /\ lastCall' = CallRecord(cache, ticker, t, r)
             /\ events' = events \o Outbound(ticker, cmds + 1, r, raws)
    /\ cmds' = cmds + 1
    /\ UNCHANGED <<nextTick, fileExists, file, pc, history, sel, edgar,
                   picks, faults, saved, report>>

\* edgar = get_edgar_facts(cik); filings = get_recent_filings(cik): two
\* requests.get, the second as soon as the first is back.
fetch_edgar ==
    /\ pc = "fetch"
    /\ cmds < MaxFetches
    /\ \E gap \in Gaps :
         /\ now' = now + gap
         /\ events' = events \o
              <<[key |-> "companyfacts", op |-> cmds + 1, attempt |-> 1,
                 at |-> now + gap, raw |-> "ok", wait |-> 0],
                [key |-> "submissions", op |-> cmds + 1, attempt |-> 1,
                 at |-> now + gap, raw |-> "ok", wait |-> 0]>>
    /\ cmds' = cmds + 1
    /\ UNCHANGED <<nextTick, cache, fileExists, file, pc, history, sel,
                   market, edgar, picks, lastCall, faults, saved, report>>

NextFetch == fetch_market \/ fetch_edgar

SpecFetch == InitFetch /\ [][NextFetch]_vars

\* The log entries, and those of market requests.
Logged == 1..Len(events)

MarketLogged == {i \in Logged : events[i].key \in FetchKeys}

\* C11: two outbound calls for the same key are never less than the TTL
\* apart, whatever the upstream answered.
C11_OnePerTTL ==
    \A i, j \in MarketLogged :
        (i < j /\ events[i].key = events[j].key) =>
            events[j].at - events[i].at >= TTL

\* Another attempt of the same call follows log entry i.
Followed(i) ==
    \E j \in Logged :
        events[j].op = events[i].op /\ events[j].attempt = events[i].attempt + 1

\* The entries of the same call before entry i with the answer raw.
Earlier(i, raw) ==
    {j \in Logged : j < i /\ events[j].op = events[i].op /\ events[j].raw = raw}

\* C12: after a 429 the fetcher sleeps a fixed backoff and tries once
\* more; a second 429 ends the fetch.
C12_RetryOnce ==
    \A i \in MarketLogged :
        events[i].raw = "r429" =>
            /\ Earlier(i, "r429") = {} => Followed(i) /\ events[i].wait > 0
            /\ Earlier(i, "r429") # {} => ~Followed(i)
            /\ \A j \in MarketLogged :
                   (events[j].raw = "r429" /\ Followed(i) /\ Followed(j)) =>
                       events[j].wait = events[i].wait

\* C13: an attempt answered with a 403 is the last of its call and no
\* sleep follows it; the call returns None and leaves the cache entry of
\* its key as it found it.
C13_AuthFailsAtOnce ==
    \A i \in MarketLogged :
        events[i].raw = "auth403" =>
            /\ ~Followed(i)
            /\ events[i].wait = 0
            /\ events[i].op = cmds =>
                   /\ market = None
                   /\ lastCall.data = None
                   /\ lastCall.pre = None => lastCall.ticker \notin DOMAIN cache
                   /\ lastCall.pre # None =>
                          /\ lastCall.ticker \in DOMAIN cache
                          /\ cache[lastCall.ticker] = lastCall.pre[1]

\* A call that found an expired entry got a 429 and then a 403.
C13_Witness ==
    /\ events # <<>>
    /\ events[Len(events)].raw = "auth403"
    /\ events[Len(events)].attempt = 2
    /\ events[Len(events)].op = cmds
    /\ lastCall.pre # None

\* C14: after a network error the fetcher sleeps and tries again, longer
\* each time, until MAX_RETRIES attempts are made.
C14_NetworkRetried ==
    \A i \in MarketLogged :
        (events[i].raw = "network" /\ events[i].attempt < MAX_RETRIES) =>
            /\ Followed(i)
            /\ events[i].wait > 0
            /\ \A j \in Earlier(i, "network") : events[j].wait < events[i].wait

\* C15: consecutive outbound requests, market or EDGAR, are at least
\* YFINANCE_WAIT seconds apart.
C15_Spaced ==
    \A i \in 1..(Len(events) - 1) :
        events[i + 1].at - events[i].at >= YFINANCE_WAIT

(***************************************************************************)
(* ZRODLO 2: SEC EDGAR.  get_edgar_facts after the request: the facts of   *)
(* raw["facts"]["us-gaap"] resolved to one value per key, then the derived *)
(* fields                                                                  *)
(***************************************************************************)
\* key -> its concepts, in the order of the list.
SEC_CONCEPTS ==
    [revenue |-> <<"Revenues",
                   "RevenueFromContractWithCustomerExcludingAssessedTax",
                   "SalesRevenueNet">>,
     gross_profit |-> <<"GrossProfit">>,
     op_income |-> <<"OperatingIncomeLoss">>,
     net_income |-> <<"NetIncomeLoss">>,
     ebitda |-> <<"EarningsBeforeInterestTaxesDepreciationAndAmortization">>,
     eps_basic |-> <<"EarningsPerShareBasic">>,
     eps_diluted |-> <<"EarningsPerShareDiluted">>,
     shares |-> <<"CommonStockSharesOutstanding">>,
     total_assets |-> <<"Assets">>,
     total_liabilities |-> <<"Liabilities">>,
     equity |-> <<"StockholdersEquity",
                  "StockholdersEquityIncludingPortionAttributableToNoncontrollingInterest">>,
     cash |-> <<"CashAndCashEquivalentsAtCarryingValue",
                "CashCashEquivalentsAndShortTermInvestments">>,
     long_term_debt |-> <<"LongTermDebt", "LongTermDebtNoncurrent">>,
     current_assets |-> <<"AssetsCurrent">>,
     current_liab |-> <<"LiabilitiesCurrent">>,
     cfo |-> <<"NetCashProvidedByUsedInOperatingActivities">>,
     capex |-> <<"PaymentsToAcquirePropertyPlantAndEquipment">>,
     free_cf |-> <<"FreeCashFlow">>,
     dividends |-> <<"PaymentsOfDividends">>]

MetricKeys == DOMAIN SEC_CONCEPTS

\* f.get("form") in ("10-K", "20-F") and in ("10-Q", "10-K").
AnnualForms == {"10-K", "20-F"}

QuarterlyForms == {"10-Q", "10-K"}

\* The facts of a list with one of the forms and a val that is not None.
Matching(facts, forms) ==
    SelectSeq(facts, LAMBDA f : f.form \in forms /\ f.val # None)

\* sort(key=end, reverse=True)[0]: the sort is stable, so of the facts
\* with the latest end the first of the list comes first.
Latest(facts) ==
    facts[CHOOSE i \in 1..Len(facts) :
              /\ \A j \in 1..Len(facts) : facts[j].end <= facts[i].end
              /\ \A j \in 1..(i - 1) : facts[j].end < facts[i].end]

\* for unit_type, facts_list in entries.items(), from the k-th unit on.
RECURSIVE scan_units(_, _, _)
scan_units(units, forms, k) ==
    IF k > Len(units) THEN None
    ELSE LET found == Matching(units[k].facts, forms)
         IN  IF found = <<>> THEN scan_units(units, forms, k + 1)
             ELSE Some([val |-> Latest(found).val[1],
                        end |-> Latest(found).end,
                        unit |-> units[k].unit])

\* for concept in concept_list, from the k-th concept on.
RECURSIVE scan_concepts(_, _, _, _)
scan_concepts(us_gaap, concept_list, forms, k) ==
    IF k > Len(concept_list) THEN None
    ELSE LET here == IF concept_list[k] \in DOMAIN us_gaap
                     THEN scan_units(us_gaap[concept_list[k]], forms, 1)
                     ELSE None
         IN  IF here # None THEN here
             ELSE scan_concepts(us_gaap, concept_list, forms, k + 1)

latest_annual(us_gaap, concept_list) ==
    scan_concepts(us_gaap, concept_list, AnnualForms, 1)

latest_quarterly(us_gaap, concept_list) ==
    scan_concepts(us_gaap, concept_list, QuarterlyForms, 1)

\* The quarterly facts asked first.
resolve_quarterly_first(us_gaap, concept_list) ==
    IF latest_quarterly(us_gaap, concept_list) # None
    THEN latest_quarterly(us_gaap, concept_list)
    ELSE latest_annual(us_gaap, concept_list)

\* A key without facts given the value 0.
resolve_or_zero(us_gaap, concept_list) ==
    IF latest_annual(us_gaap, concept_list) # None
    THEN latest_annual(us_gaap, concept_list)
    ELSE IF latest_quarterly(us_gaap, concept_list) # None
    THEN latest_quarterly(us_gaap, concept_list)
    ELSE Some([val |-> 0, end |-> 0, unit |-> ""])

\* data = latest_annual(concepts) or latest_quarterly(concepts); a tuple
\* of three is true whatever its val.
resolve(us_gaap, concept_list) ==
    IF latest_annual(us_gaap, concept_list) # None
    THEN latest_annual(us_gaap, concept_list)
    ELSE latest_quarterly(us_gaap, concept_list)

\* result.get(key) as a condition: neither None nor 0.
Truthy(x) == x # None /\ x[1] # 0

Abs(n) == IF n < 0 THEN 0 - n ELSE n

\* a / b, kept as the fraction.
Ratio(a, b) == [num |-> a[1], den |-> b[1]]

\* result[key] for the keys of SEC_CONCEPTS, before the derived fields.
Resolved(us_gaap) ==
    [key \in MetricKeys |->
        IF resolve(us_gaap, SEC_CONCEPTS[key]) = None THEN None
        ELSE Some(resolve(us_gaap, SEC_CONCEPTS[key])[1].val)]

\* The ratio fields and the keys each is computed from (numerator first).
RatioFields ==
    [net_margin_calc |-> <<"net_income", "revenue">>,
     gross_margin_calc |-> <<"gross_profit", "revenue">>,
     op_margin_calc |-> <<"op_income", "revenue">>,
     debt_ratio |-> <<"total_liabilities", "total_assets">>,
     current_ratio_calc |-> <<"current_assets", "current_liab">>]

\* get_edgar_facts from `us_gaap = ...` on: val the values of the result
\* dict (a derived field is a key only when it was computed), period and
\* unit the entries key_period and key_unit.
get_edgar_facts(us_gaap) ==
    LET r == Resolved(us_gaap)
        free_cf == IF r["free_cf"] = None /\ Truthy(r["cfo"]) /\ Truthy(r["capex"])
                   THEN Some(r["cfo"][1] - Abs(r["capex"][1]))
                   ELSE r["free_cf"]
        computed == {f \in DOMAIN RatioFields :
                        /\ Truthy(r[RatioFields[f][2]])
                        /\ Truthy(r[RatioFields[f][1]])}
        present == {key \in MetricKeys : resolve(us_gaap, SEC_CONCEPTS[key]) # None}
    IN  [val |-> [key \in MetricKeys \cup computed |->
                    IF key = "free_cf" THEN free_cf
                    ELSE IF key \in MetricKeys THEN r[key]
                    ELSE Ratio(r[RatioFields[key][1]], r[RatioFields[key][2]])],
         period |-> [key \in present |->
                        resolve(us_gaap, SEC_CONCEPTS[key])[1].end],
         unit |-> [key \in present |->
                        resolve(us_gaap, SEC_CONCEPTS[key])[1].unit]]

\* --- the companyfacts the resolution is run on ---
Forms == {"10-K", "20-F", "10-Q", "8-K"}

\* Period ends, as years.
Ends == {2022, 2023}

\* What a fact is like: its form and end, and whether its val is null.
FactShapes ==
    [form : {"10-K", "10-Q"}, end : Ends, null : {FALSE}]
        \cup [form : {"20-F", "8-K"}, end : {2023}, null : {FALSE}]
        \cup {[form |-> "10-K", end |-> 2023, null |-> TRUE]}

\* Facts in the longest list of a unit.
MaxFacts == 2

ShapeLists(n) == UNION {[1..k -> FactShapes] : k \in 0..n}

\* The facts of the shapes, each with a val of its own: base + position.
FactsOf(shapes, base) ==
    [k \in 1..Len(shapes) |->
        [form |-> shapes[k].form, end |-> shapes[k].end,
         val |-> IF shapes[k].null THEN None ELSE Some(base + k)]]

\* Facts of two revenue concepts: the first in USD (a) and EUR (b), the
\* second in USD (c); a concept without facts is not in the document.
RevenueGaap(a, b, c) ==
    LET first  == SEC_CONCEPTS["revenue"][1]
        second == SEC_CONCEPTS["revenue"][2]
    IN  [concept \in (IF a \o b # <<>> THEN {first} ELSE {})
                         \cup (IF c # <<>> THEN {second} ELSE {}) |->
            IF concept = first
            THEN <<[unit |-> "USD", facts |-> FactsOf(a, 110)],
                   [unit |-> "EUR", facts |-> FactsOf(b, 120)]>>
            ELSE <<[unit |-> "USD", facts |-> FactsOf(c, 210)]>>]

RevenueInputs ==
    {RevenueGaap(a, b, c) : a \in ShapeLists(MaxFacts),
                            b \in ShapeLists(1), c \in ShapeLists(1)}

\* The facts of one key in the documents the derived fields are run on:
\* none, a null val, 0, a positive and a negative amount from a 10-K, an
\* amount known from a 10-Q only.
SimpleFacts ==
    {<<>>,
     <<[form |-> "10-K", end |-> 2023, val |-> None]>>,
     <<[form |-> "10-K", end |-> 2023, val |-> Some(0)]>>,
     <<[form |-> "10-K", end |-> 2023, val |-> Some(4)]>>,
     <<[form |-> "10-K", end |-> 2023, val |-> Some(0 - 4)]>>,
     <<[form |-> "10-Q", end |-> 2023, val |-> Some(2)]>>}

\* The keys that go into the derived fields together.
Groups ==
    {{"revenue", "net_income", "gross_profit", "op_income"},
     {"total_liabilities", "total_assets"},
     {"current_assets", "current_liab"},
     {"cfo", "capex", "free_cf"}}

\* The document with facts[key] under the first concept of each key.
GroupGaap(facts) ==
    [concept \in {SEC_CONCEPTS[key][1] :
                     key \in {k \in DOMAIN facts : facts[k] # <<>>}} |->
        LET key == CHOOSE k \in DOMAIN facts : SEC_CONCEPTS[k][1] = concept
        IN  <<[unit |-> "USD", facts |-> facts[key]]>>]

GroupInputs ==
    UNION {{GroupGaap(facts) : facts \in [g -> SimpleFacts]} : g \in Groups}

NoResult == [val |-> EmptyMap, period |-> EmptyMap, unit |-> EmptyMap]

\* get_edgar_facts has the document: edgar holds its locals.
InitEdgar ==
    /\ \E g \in RevenueInputs \cup GroupInputs :
           edgar = [us_gaap |-> g, result |-> NoResult]
    /\ pc = "facts"
    /\ now = BootTime
    /\ nextTick = BootTime
    /\ cache = EmptyMap
    /\ fileExists = FALSE
    /\ file = <<>>
    /\ history = EmptyMap
    /\ sel = NoTicker
    /\ market = None
    /\ events = <<>>
    /\ picks = <<>>
    /\ lastCall = NoCall
    /\ cmds = 0
    /\ faults = 0
    /\ saved = NoSave
    /\ report = NoReport

\* The rest of get_edgar_facts, to `return result`.
edgar_resolve ==
    /\ pc = "facts"
    /\ edgar' = [edgar EXCEPT !.result = get_edgar_facts(edgar.us_gaap)]
    /\ pc' = "resolved"
    /\ UNCHANGED <<now, nextTick, cache, fileExists, file, history, sel,
                   market, events, picks, lastCall, cmds, faults, saved, report>>

NextEdgar == edgar_resolve

SpecEdgar == InitEdgar /\ [][NextEdgar]_vars

\* The non-null facts of the forms under any concept of the key, in any
\* unit, each as the tuple get_edgar_facts would return for it.
FactsIn(key, forms) ==
    UNION {UNION {{[val |-> edgar.us_gaap[concept][u].facts[k].val[1],
                    end |-> edgar.us_gaap[concept][u].facts[k].end,
                    unit |-> edgar.us_gaap[concept][u].unit] :
                       k \in {k \in 1..Len(edgar.us_gaap[concept][u].facts) :
                                /\ edgar.us_gaap[concept][u].facts[k].form \in forms
                                /\ edgar.us_gaap[concept][u].facts[k].val # None}} :
                  u \in 1..Len(edgar.us_gaap[concept])} :
           concept \in {SEC_CONCEPTS[key][i] : i \in 1..Len(SEC_CONCEPTS[key])}
                           \cap DOMAIN edgar.us_gaap}

\* The key was resolved from a fact.
Present(key) == key \in DOMAIN edgar.result.period

\* The fact the key was resolved from.
Picked(key) ==
    [val |-> edgar.result.val[key][1], end |-> edgar.result.period[key],
     unit |-> edgar.result.unit[key]]

\* C16: a key with a non-null fact from a 10-K or 20-F under any of its
\* concepts is resolved from such a fact, later 10-Q facts or not; a key
\* resolved from another fact has no annual fact and is resolved from a
\* 10-Q fact.
C16_AnnualFirst ==
    pc = "resolved" =>
        \A key \in MetricKeys :
            /\ FactsIn(key, AnnualForms) # {} =>
                   Present(key) /\ Picked(key) \in FactsIn(key, AnnualForms)
            /\ (Present(key) /\ Picked(key) \notin FactsIn(key, AnnualForms)) =>
                   /\ FactsIn(key, AnnualForms) = {}
                   /\ Picked(key) \in FactsIn(key, {"10-Q"})

\* Revenue resolved from an annual fact though a 10-Q fact ends later.
C16_Witness ==
    /\ pc = "resolved"
    /\ Present("revenue")
    /\ Picked("revenue") \in FactsIn("revenue", AnnualForms)
    /\ \E q \in FactsIn("revenue", {"10-Q"}) : q.end > Picked("revenue").end

\* C17: the fact a key is resolved from has the latest end of all facts
\* of its tier, over all concepts of the key and all units.
C17_LatestOfAll ==
    pc = "resolved" =>
        \A key \in MetricKeys :
            Present(key) =>
                \A f \in (IF FactsIn(key, AnnualForms) # {}
                          THEN FactsIn(key, AnnualForms)
                          ELSE FactsIn(key, {"10-Q"})) :
                    f.end <= Picked(key).end

\* The keys a ratio field is computed from.
Needs(field) == {RatioFields[field][1], RatioFields[field][2]}

\* C18: get_edgar_facts returns a result with every key on every
\* document; a key without a non-null annual
\* or quarterly fact is None in the result (free_cf: None or derived), no
\* ratio field computed from it is in the result, and when it is cfo or
\* capex, free_cf is no more than what FreeCashFlow facts give.
C18_AbsentStaysAbsent ==
    /\ pc = "facts" =>
           MetricKeys \subseteq DOMAIN get_edgar_facts(edgar.us_gaap).val
    /\ pc = "resolved" =>
        \A key \in MetricKeys :
            FactsIn(key, AnnualForms \cup QuarterlyForms) = {} =>
                /\ ~Present(key)
                /\ key # "free_cf" => edgar.result.val[key] = None
                /\ \A field \in DOMAIN RatioFields :
                       key \in Needs(field) =>
                           field \notin DOMAIN edgar.result.val
                /\ (key \in {"cfo", "capex"} /\ ~Present("free_cf")) =>
                       edgar.result.val["free_cf"] = None
                /\ key = "free_cf" =>
                       \/ edgar.result.val[key] = None
                       \/ /\ Truthy(edgar.result.val["cfo"])
                          /\ Truthy(edgar.result.val["capex"])
                          /\ edgar.result.val[key] =
                                 Some(edgar.result.val["cfo"][1]
                                          - Abs(edgar.result.val["capex"][1]))

\* Revenue has a fact with a null val only, net income is known.
C18_Witness ==
    /\ pc = "resolved"
    /\ SEC_CONCEPTS["revenue"][1] \in DOMAIN edgar.us_gaap
    /\ FactsIn("revenue", AnnualForms \cup QuarterlyForms) = {}
    /\ edgar.result.val["revenue"] = None
    /\ Truthy(edgar.result.val["net_income"])

\* C19: a ratio field is in the result exactly when both its keys are
\* resolved (0 included) and the denominator is not 0, and then it is
\* numerator / denominator.
C19_RatioIff ==
    pc = "resolved" =>
        \A field \in DOMAIN RatioFields :
            LET n == edgar.result.val[RatioFields[field][1]]
                d == edgar.result.val[RatioFields[field][2]]
            IN  /\ field \in DOMAIN edgar.result.val <=>
                       (n # None /\ d # None /\ d[1] # 0)
                /\ field \in DOMAIN edgar.result.val =>
                       edgar.result.val[field] = [num |-> n[1], den |-> d[1]]

\* C20: with cfo and capex both resolved (0 included) free_cf is
\* cfo - |capex|; it is None exactly when one of the two is None.
C20_FreeCashFlow ==
    pc = "resolved" =>
        LET cfo   == edgar.result.val["cfo"]
            capex == edgar.result.val["capex"]
        IN  /\ (cfo # None /\ capex # None) =>
                   edgar.result.val["free_cf"] = Some(cfo[1] - Abs(capex[1]))
            /\ edgar.result.val["free_cf"] = None <=>
                   (cfo = None \/ capex = None)

(***************************************************************************)
(* Properties of a cycle whose side sources fail (checked under Spec)      *)
(***************************************************************************)
\* The running cycle asked EDGAR for the company facts and got none.
FilingsFailed == Running /\ market # None /\ HasCik(sel) /\ edgar = None

\* C21: a cycle whose market fetch succeeded and whose company facts
\* request failed sends the quote and the AI embed and no EDGAR embed,
\* records the entity and is over.
C21_FilingsOptional ==
    FilingsFailed =>
        /\ Pos(events, "get_edgar_facts") # 0
        /\ Pos(events, "send_quote") # 0
        /\ Pos(events, "send_edgar") = 0
        /\ Pos(events, "send_unavailable") = 0
        /\ pc \in {"quote", "tmp", "deleted", "ai", "done"}
        /\ pc \in {"ai", "done"} => Pos(events, "send_ai") # 0
        /\ pc = "done" =>
               /\ Recorded
               /\ events[Len(events)] = "save_history"

\* A cycle for an entity with a CIK is over without the company facts.
C21_Witness ==
    /\ pc = "done"
    /\ FilingsFailed
    /\ Pos(events, "send_ai") # 0
    /\ Recorded

(***************************************************************************)
(* KOMENDY, all of them, between and in the awaits of the cycles.  A       *)
(* command is one action: after its first await it runs to its sends       *)
(* without another await in between, and its sends touch nothing shared.   *)
(***************************************************************************)
\* Tickers asked a report for: tracked with a CIK, tracked without one,
\* not tracked.
ReportTickers == {"NVDA", "SPY", "AAPL"}

\* cmd_report asking EDGAR whatever the cik.
report_steps_always_edgar(ticker, m, e, ai) ==
    <<"send_tmp", "get_market_data">> \o
    (IF m = None THEN <<"edit_tmp">>
     ELSE <<"get_edgar_facts", "get_recent_filings", "send_quote">>
              \o (IF e # None THEN <<"send_edgar">> ELSE <<>>)
              \o <<ai, "send_ai", "delete_tmp">>)

\* What cmd_report does, in order, for a ticker: get_market_data returned
\* m, get_edgar_facts e, the Anthropic call ended as ai.  cik is the one
\* of COMPANIES, None for a ticker that is not tracked.
report_steps(ticker, m, e, ai) ==
    <<"send_tmp", "get_market_data">> \o
    (IF m = None THEN <<"edit_tmp">>
     ELSE (IF HasCik(ticker)
           THEN <<"get_edgar_facts", "get_recent_filings">> ELSE <<>>)
              \o <<"send_quote">>
              \o (IF (IF HasCik(ticker) THEN e ELSE None) # None
                  THEN <<"send_edgar">> ELSE <<>>)
              \o <<ai, "send_ai", "delete_tmp">>)

\* !raport TICKER
cmd_report ==
    /\ pc # "done"
    /\ Budget(1)
    /\ \E ticker \in ReportTickers :
       \E t \in CmdTimes :
       \E outs \in Answers(MaxEnv - cmds - faults - 1) :
       \E e \in EdgarResults(ticker) :
       \E ai \in {"report", "report_error"} :
         LET r == get_market_data(cache, ticker, t, outs)
             cost == Failed(r, outs)
                       + (IF r.data # None THEN EdgarFailed(ticker, e) ELSE 0)
                       + (IF r.data # None /\ ai = "report_error" THEN 1 ELSE 0)
         IN
         /\ r.hit => outs = AllOk
         /\ r.data = None => (e = None /\ ai = "report")
         /\ Budget(1 + cost)
         /\ faults' = faults + cost
         /\ cache' = r.cache
         /\ now' = r.end
         /\ lastCall' = CallRecord(cache, ticker, t, r)
         /\ report' = [ticker |-> ticker,
                       events |-> report_steps(ticker, r.data, e, ai)]
    /\ cmds' = cmds + 1
    /\ UNCHANGED <<nextTick, fileExists, file, pc, history, sel, market,
                   edgar, events, picks, saved>>

\* !edgar CIK: a note, the two EDGAR requests, the embed or a message.
cmd_edgar ==
    /\ pc # "done"
    /\ Budget(1)
    /\ \E t \in CmdTimes : now' = t
    /\ cmds' = cmds + 1
    /\ UNCHANGED <<nextTick, cache, fileExists, file, pc, history, sel,
                   market, edgar, events, picks, lastCall, faults, saved,
                   report>>

\* !historia writing back what it loaded, which creates the file.
cmd_historia_resaves ==
    /\ pc # "done"
    /\ Budget(1)
    /\ load_history(fileExists, file).ok
    /\ \E t \in CmdTimes : now' = t
    /\ cmds' = cmds + 1
    /\ file' = save_history(load_history(fileExists, file).h)
    /\ fileExists' = TRUE
    /\ UNCHANGED <<nextTick, cache, pc, history, sel, market, edgar, events,
                   picks, lastCall, faults, saved, report>>

\* !historia: load_history into a local of its own, one embed.
cmd_historia ==
    /\ pc # "done"
    /\ Budget(1)
    /\ load_history(fileExists, file).ok
    /\ \E t \in CmdTimes : now' = t
    /\ cmds' = cmds + 1
    /\ UNCHANGED <<nextTick, cache, fileExists, file, pc, history, sel,
                   market, edgar, events, picks, lastCall, faults, saved,
                   report>>

\* Cycles of a run with all the commands.
MaxCmdCycles == 3

NextCmds ==
    \/ Len(picks) < MaxCmdCycles /\ send_update_no_channel
    \/ Len(picks) < MaxCmdCycles /\ send_update_start
    \/ send_update_unavailable
    \/ send_update_quote
    \/ send_update_edgar
    \/ send_update_report
    \/ send_update_ai
    \/ send_update_record
    \/ send_update_return
    \/ cmd_stock
    \/ cmd_edgar
    \/ cmd_report
    \/ cmd_historia

SpecCmds == Init /\ [][NextCmds]_vars

(***************************************************************************)
(* Entities without a CIK                                                  *)
(***************************************************************************)
EdgarSteps == {"get_edgar_facts", "get_recent_filings", "send_edgar"}

Steps(seq) == {seq[i] : i \in 1..Len(seq)}

\* The latest !raport was for a ticker without a CIK.
ReportNoCik == report.ticker # NoTicker /\ ~HasCik(report.ticker)

\* That report got market data and went to its end.
ReportDelivered ==
    /\ "send_quote" \in Steps(report.events)
    /\ "send_ai" \in Steps(report.events)
    /\ report.events[Len(report.events)] = "delete_tmp"

NarrativeFailed == Running /\ "report_error" \in Steps(events)

\* C23: a cycle whose Anthropic call failed has sent the quote, and the
\* EDGAR embed when there are company facts, before the call; it goes on:
\* the error text is sent in the AI embed, the entity is recorded and the
\* cycle is over.
C23_NarrativeOptional ==
    NarrativeFailed =>
        /\ market # None
        /\ Precedes("send_quote", "report_error")
        /\ (HasCik(sel) /\ edgar # None) =>
               /\ Pos(events, "send_edgar") # 0
               /\ Pos(events, "send_edgar") < Pos(events, "report_error")
        /\ Pos(events, "report") = 0
        /\ pc \in {"deleted", "ai", "done"}
        /\ pc \in {"ai", "done"} =>
               Pos(events, "report_error") < Pos(events, "send_ai")
        /\ pc = "done" =>
               /\ Recorded
               /\ events[Len(events)] = "save_history"

\* A cycle with company facts is over whose Anthropic call failed.
C23_Witness ==
    /\ pc = "done"
    /\ NarrativeFailed
    /\ Pos(events, "send_edgar") # 0
    /\ Pos(events, "send_ai") # 0
    /\ Recorded

(***************************************************************************)
(* Entities that are not in the history                                    *)
(***************************************************************************)
\* The tracked entities history has no entry of.
NeverSeen == {c \in Tracked : c \notin DOMAIN history}

\* Clock readings pick_company is looked at: a second past 2000-01-01 plus
\* the cooldown, the start of the bot, the reading of this run, and later.
PickTimes == {Epoch2000 + cooldown + 1, BootTime, now, now + cooldown}

\* C24: a history file without some tracked entities loads, and so does no
\* file at all; at every clock reading such an entity is in pick_company's
\* list `available`, so with one of them around pick_company returns an
\* entity of that list and never the min() of the fallback.
C24_NeverSeenOverdue ==
    /\ load_history(FALSE, <<>>) = [ok |-> TRUE, h |-> EmptyMap]
    /\ load_history(TRUE, save_history(history)) = [ok |-> TRUE, h |-> history]
    /\ \A c \in NeverSeen :
           /\ LastSent(history, c) = Epoch2000
           /\ \A t \in PickTimes : Pos(available(history, t), c) # 0
    /\ (pc = "pick" /\ NeverSeen # {}) =>
           \A d \in Draws(history, now) :
               Pos(available(history, now), pick_company(history, now, d)) # 0
    /\ (pc = "picked" /\ NeverSeen # {}) =>
           /\ available(history, now) # <<>>
           /\ Pos(available(history, now), sel) # 0

\* pick_company returned an entity that is not in the history while
\* another entity, sent a second ago, is inside its cooldown.
C24_Witness ==
    /\ pc = "picked"
    /\ sel \in NeverSeen
    /\ \E c \in Tracked : c \in DOMAIN history /\ history[c] = now - 1

(***************************************************************************)
(* Who writes the history file                                             *)
(***************************************************************************)
\* A step of a command.
CommandStep == cmds' # cmds

\* The history file is written in this step.
FileWritten == file' # file \/ fileExists' # fileExists

\* The cycle's dict `history` changes in this step, the load at the start
\* and the return of the coroutine aside.
HistoryMutated == history' # history /\ pc # "idle" /\ pc' # "idle"

MaxStormCycles == 2

\* Init with the environment allowed MAX_RETRIES - 1 failures more, so
\* that one call can have all its attempts fail.
InitStorm ==
    /\ now = BootTime
    /\ nextTick = BootTime
    /\ cache = EmptyMap
    /\ fileExists = FALSE
    /\ file = <<>>
    /\ pc = "idle"
    /\ history = EmptyMap
    /\ sel = NoTicker
    /\ market = None
    /\ edgar = None
    /\ events = <<>>
    /\ picks = <<>>
    /\ lastCall = NoCall
    /\ cmds = 0
    /\ faults = 1 - MAX_RETRIES
    /\ saved = NoSave
    /\ report = NoReport

NextStorm ==
    \/ Len(picks) < MaxStormCycles /\ send_update_start
    \/ send_update_unavailable
    \/ send_update_quote
    \/ send_update_edgar
    \/ send_update_report
    \/ send_update_ai
    \/ send_update_record
    \/ send_update_return

SpecStorm == InitStorm /\ [][NextStorm]_vars

\* How many times e is in s.
Count(s, e) == Cardinality({i \in 1..Len(s) : s[i] = e})

SourceFetches == {"get_market_data", "get_edgar_facts", "get_recent_filings"}

\* C26: whatever the upstream answers to the attempts, _fetch_yfinance_raw
\* returns after one to MAX_RETRIES of them, and so does every
\* get_market_data call of a cycle that missed the cache; a cycle calls get_market_data, get_edgar_facts and get_recent_filings at
\* most once each.
C26_BoundedFetches ==
    /\ \A outs \in [1..MAX_RETRIES -> Outcomes] :
           Len(fetch_yfinance_raw(outs, BootTime).calls) \in 1..MAX_RETRIES
    /\ Len(lastCall.calls) <= MAX_RETRIES
    /\ (lastCall # NoCall /\ ~lastCall.hit) => Len(lastCall.calls) >= 1
    /\ lastCall.hit => lastCall.calls = <<>>
    /\ Running => \A x \in SourceFetches : Count(events, x) <= 1

\* A cycle for an entity with a CIK is over whose market fetch got data at
\* its last attempt, after MAX_RETRIES - 1 failures, and which asked EDGAR
\* for the facts and the filings.
C26_Witness ==
    /\ pc = "done"
    /\ lastCall.ticker = sel
    /\ Len(lastCall.calls) = MAX_RETRIES
    /\ market # None
    /\ \A x \in SourceFetches : Count(events, x) = 1

(***************************************************************************)
(* What a get_market_data call leaves in _cache                            *)
(***************************************************************************)
\* This step is a get_market_data call.
MarketCall == lastCall' # lastCall

\* The call of this step went to the upstream and came back without data.
FetchFailed == MarketCall /\ ~lastCall'.hit /\ lastCall'.data = None

\* _cache is the same for every key but k.
SameBut(k) ==
    /\ DOMAIN cache' \ {k} = DOMAIN cache \ {k}
    /\ \A j \in DOMAIN cache \ {k} : cache'[j] = cache[j]

\* C27: a get_market_data call whose fetch failed returns None and leaves
\* _cache as it was for every key, the expired entry of its own key
\* included; _cache changes only in a call whose fetch got data, and then
\* only the entry of the key asked for, which holds that data and the time
\* of the call.
C27_FailureKeepsCache ==
    [][/\ FetchFailed => (market' = None /\ cache' = cache)
       /\ cache' # cache =>
              /\ MarketCall
              /\ ~lastCall'.hit
              /\ lastCall'.data # None
              /\ market' = lastCall'.data
              /\ SameBut(lastCall'.ticker)
              /\ cache'[lastCall'.ticker] =
                     [at |-> lastCall'.at, data |-> lastCall'.data[1]]]_vars

\* The latest call found an expired entry of its key, went to the
\* upstream, got no data, and the entry is still the expired one.
C27_Witness ==
    /\ lastCall.pre # None
    /\ ~lastCall.hit
    /\ lastCall.data = None
    /\ market = None
    /\ lastCall.at - lastCall.pre[1].at >= CACHE_TTL * 60
    /\ cache[lastCall.ticker] = lastCall.pre[1]
    /\ Len(lastCall.calls) >= 1

(***************************************************************************)
(* What a cycle does to the entries of the history file                    *)
(***************************************************************************)
\* The history file's content, before and after the step.
Persisted == load_history(fileExists, file).h

PersistedNext == load_history(fileExists', file').h

\* The cycles that have saved: all but a running one that has not yet.
Saved(i) == i < Len(picks) \/ pc \in {"done", "idle"}

\* C28: the file a cycle saves holds the entries the file had before, the
\* selected entity's alone replaced by the time of the save; between the
\* load of a cycle and its save nothing writes the file, whatever commands
\* arrive in its awaits; so the entity of every cycle that has saved is in
\* the file with a time not before that cycle.
C28_OthersKept ==
    /\ [](\A i \in 1..Len(picks) :
              (picks[i].t # NoTicker /\ Saved(i)) =>
                  /\ picks[i].t \in DOMAIN Persisted
                  /\ Persisted[picks[i].t] >= picks[i].at)
    /\ [][/\ (pc = "idle" /\ pc' # "idle") =>
                 (history' = Persisted /\ PersistedNext = Persisted)
          /\ (pc # "idle" /\ pc' \notin {"idle", "done"}) =>
                 (PersistedNext = Persisted /\ history' = history)
          /\ (pc # "done" /\ pc' = "done") =>
                 /\ load_history(fileExists', file').ok
                 /\ DOMAIN PersistedNext = DOMAIN Persisted \cup {sel}
                 /\ \A k \in DOMAIN Persisted \ {sel} :
                        PersistedNext[k] = Persisted[k]
                 /\ PersistedNext[sel] = now
          /\ (pc = "done" \/ pc' = pc) => PersistedNext = Persisted]_vars

\* The third cycle has saved; a command fetched a quote while it ran; the
\* file holds the entities of the two cycles before with their times.
C28_Witness ==
    /\ pc = "done"
    /\ Len(picks) = 3
    /\ lastCall.ticker # sel
    /\ cmds >= 1
    /\ DOMAIN Persisted = {picks[i].t : i \in 1..3}
    /\ Cardinality(DOMAIN Persisted) = 3
    /\ \A i \in 1..2 : Persisted[picks[i].t] < picks[3].at

====
